---- MODULE Spec2Model ----
(***************************************************************************)
(* SERP heading analyzer: the command-line pipeline of                     *)
(* serp_heading_analyzer.py (main, SERPAnalyzer) and the interactive       *)
(* pipeline of app.py.                                                     *)
(*                                                                         *)
(* A Python str is a sequence of one-character strings.  A parsed page     *)
(* (the soup) is the sequence of its elements in document order; an        *)
(* element carries its tag, its attributes and the text strings found      *)
(* among its descendants, in document order.  An attribute is an option:   *)
(* <<>> when the element does not have it, <<value>> when it does.         *)
(***************************************************************************)
EXTENDS Integers, Sequences, FiniteSets, TLC

\* ------------------------------------------------------------------ bounds
MaxUrls == 3
MaxElems == 3
MaxHeadings == 3
MaxStrLen == 3

\* ------------------------------------------------------ program constants
\* the delay in half seconds: SERPAnalyzer's default 2.0, the slider's 1.0 .. 5.0
DefaultDelay == 4
MinDelay == 2
MaxDelay == 10

\* ----------------------------------------------------------------- strings
SP == " "
NL == "\n"
Whitespace == {SP, NL}

RECURSIVE LStrip(_)
LStrip(s) ==
  IF s = <<>> THEN <<>>
  ELSE IF Head(s) \in Whitespace THEN LStrip(Tail(s)) ELSE s

RECURSIVE RStrip(_)
RStrip(s) ==
  IF s = <<>> THEN <<>>
  ELSE IF s[Len(s)] \in Whitespace THEN RStrip(SubSeq(s, 1, Len(s) - 1)) ELSE s

\* str.strip()
Strip(s) == RStrip(LStrip(s))

RECURSIVE Concat(_)
Concat(ss) == IF ss = <<>> THEN <<>> ELSE Head(ss) \o Concat(Tail(ss))

NonEmpty(t) == t /= <<>>

\* the strings of ss stripped, without the ones left empty
StrippedNonEmpty(ss) ==
  SelectSeq([k \in 1..Len(ss) |-> Strip(ss[k])], NonEmpty)

\* Tag.get_text(strip=True): every text string of the element is stripped,
\* the ones left empty are dropped, and the rest are joined with the empty
\* separator.
GetTextStrip(el) == Concat(StrippedNonEmpty(el.strings))

\* ---------------------------------------------------------------- the soup
NoneVal == [py |-> "None"]
Levels == {"h1", "h2", "h3", "h4", "h5", "h6"}

\* soup.find_all(tag): the elements with the tag, in document order
FindAll(soup, tag) == SelectSeq(soup, LAMBDA e : e.tag = tag)

\* soup.find(tag): the first element with the tag, or None
Find(soup, tag) ==
  LET all == FindAll(soup, tag)
  IN  IF all = <<>> THEN NoneVal ELSE Head(all)

FindAllMeta(soup, key, value) ==
  SelectSeq(soup, LAMBDA e : e.tag = "meta" /\ e[key] = <<value>>)

\* soup.find('meta', attrs={key: value})
FindMeta(soup, key, value) ==
  LET all == FindAllMeta(soup, key, value)
  IN  IF all = <<>> THEN NoneVal ELSE Head(all)

\* _get_text(element)
GetText(element) == IF element /= NoneVal THEN GetTextStrip(element) ELSE <<>>

\* meta.get('content', '')
GetContent(meta) == IF meta.content = <<>> THEN <<>> ELSE meta.content[1]

\* _get_meta_description with a fault: og:description is looked up first
GetMetaDescriptionOgFirst(soup) ==
  LET og == FindMeta(soup, "property", "og:description")
      meta == IF og /= NoneVal THEN og ELSE FindMeta(soup, "name", "description")
  IN  IF meta /= NoneVal THEN Strip(GetContent(meta)) ELSE <<>>

\* _get_meta_description(soup)
GetMetaDescription(soup) ==
  LET named == FindMeta(soup, "name", "description")
      meta == IF named /= NoneVal THEN named
              ELSE FindMeta(soup, "property", "og:description")
  IN  IF meta /= NoneVal THEN Strip(GetContent(meta)) ELSE <<>>

TextsOf(els) == [k \in 1..Len(els) |-> GetTextStrip(els[k])]

\* [h.get_text(strip=True) for h in soup.find_all(tag) if h.get_text(strip=True)]
HeadingList(soup, tag) == SelectSeq(TextsOf(FindAll(soup, tag)), NonEmpty)

PyList(items) == [py |-> "list", v |-> items]
PyStr(chars) == [py |-> "str", v |-> chars]

\* the elements dict built by extract_page_elements
Elements(url, soup) ==
  [py |-> "dict",
   url |-> url,
   title |-> GetText(Find(soup, "title")),
   meta_description |-> GetMetaDescription(soup),
   h1 |-> PyList(HeadingList(soup, "h1")),
   h2 |-> PyList(HeadingList(soup, "h2")),
   h3 |-> PyList(HeadingList(soup, "h3")),
   h4 |-> PyList(HeadingList(soup, "h4")),
   h5 |-> PyList(HeadingList(soup, "h5")),
   h6 |-> PyList(HeadingList(soup, "h6"))]

\* ------------------------------------------------------------------- pages
El(tag, strings) ==
  [tag |-> tag, name |-> <<>>, property |-> <<>>, content |-> <<>>,
   strings |-> strings]
Meta(name, property, content) ==
  [tag |-> "meta", name |-> name, property |-> property, content |-> content,
   strings |-> <<>>]

ElemSet ==
  { El("title", << <<SP, "a", SP>> >>),
    Meta(<<"description">>, <<>>, << <<SP, "a", SP>> >>),
    Meta(<<"description">>, <<>>, <<>>),
    Meta(<<>>, <<"og:description">>, << <<"b", SP>> >>),
    Meta(<<"keywords">>, <<>>, << <<"a">> >>),
    El("h1", << <<SP, "a", NL>> >>),
    El("h1", << <<SP>> >>),
    El("h1", <<>>),
    El("h1", << <<"a", SP>>, <<"b">> >>),
    El("h2", << <<"b">> >>),
    El("h6", << <<NL>>, <<"a", NL, "b">> >>) }

RECURSIVE SeqsUpTo(_, _)
SeqsUpTo(S, n) ==
  IF n = 0 THEN {<<>>}
  ELSE LET shorter == SeqsUpTo(S, n - 1)
       IN  shorter \cup {Append(s, x) : s \in shorter, x \in S}

AllDocs == SeqsUpTo(ElemSet, MaxElems)

\* BeautifulSoup(page.text, "html.parser") of a response the parser accepts
Soup(response) == response.doc

PageA == <<El("title", << <<SP, "a", SP>> >>),
           Meta(<<>>, <<"og:description">>, << <<"b", SP>> >>),
           El("h1", << <<"a", SP>>, <<"b">> >>),
           El("h1", << <<SP>> >>),
           El("h2", << <<"b">> >>)>>
ErrorPage == <<El("title", << <<"b">> >>), El("h1", << <<"b">> >>)>>

Response(status, doc, markup) ==
  [kind |-> "response", status |-> status, doc |-> doc, markup |-> markup]
Raises(what) == [kind |-> what, status |-> 0, doc |-> <<>>, markup |-> "none"]

\* what requests.get(url, headers=headers, timeout=10) can end in
FetchOutcomes ==
  { Raises("network_error"), Raises("timeout"),
    Response(200, PageA, "ok"), Response(404, ErrorPage, "ok"),
    Response(200, <<>>, "rejected") }

IsSuccess(response) ==
  response.kind = "response" /\ response.status >= 200 /\ response.status < 300

\* ------------------------------------------------------ join and split
RECURSIVE JoinWith(_, _)
JoinWith(list, sep) ==
  IF list = <<>> THEN <<>>
  ELSE IF Len(list) = 1 THEN list[1]
       ELSE Head(list) \o <<sep>> \o JoinWith(Tail(list), sep)

\* the export's join with a fault: the separator is a space
JoinSpace(list) == JoinWith(list, SP)

\* '\n'.join(list)
JoinNL(list) == JoinWith(list, NL)

FlattenChars == {"a", SP, NL}
\* the texts a heading list can hold: not empty, no whitespace at either end
HeadingStrs ==
  { s \in SeqsUpTo(FlattenChars, MaxStrLen) :
      s /= <<>> /\ s[1] \notin Whitespace /\ s[Len(s)] \notin Whitespace }
HeadingLists == SeqsUpTo(HeadingStrs, MaxHeadings)

\* ------------------------------------------------------------------- state
VARIABLES
  variant,       \* "cli": main of serp_heading_analyzer.py; "app": app.py
  pc,            \* the position of the run
  num_results,   \* the requested result count
  delay,         \* the delay between requests, in half seconds
  urls,          \* the URL source's reply
  i,             \* the loop's enumerate index
  page,          \* the response of the last fetch
  elements,      \* what extract_page_elements returned last
  heap,          \* the dict objects, by reference
  results,       \* the list results: references into heap
  self_results,  \* analyzer.results
  excel_data,    \* the rows of the tabular export: references into heap
  files,         \* the files written
  ui,            \* the message the run ended with
  events,        \* the observable events, in order
  appended,      \* history: each record as it was when appended
  hl,            \* a heading list of a record
  cell           \* its cell in the tabular export

vars == <<variant, pc, num_results, delay, urls, i, page, elements, heap,
          results, self_results, excel_data, files, ui, events, appended,
          hl, cell>>

flattenVars == <<hl, cell>>
runVars == <<variant, num_results, delay, urls, i, heap, results, self_results,
             excel_data, files, ui, events, appended>>

Urls == {"u1", "u2"}
NoPage == Raises("none")

Event(type, idx, url, n, res) ==
  [type |-> type, idx |-> idx, url |-> url, n |-> n, res |-> res]

Init ==
  /\ variant \in {"cli", "app"}
  /\ pc = "start"
  /\ num_results \in 1..MaxUrls
  /\ delay \in IF variant = "cli" THEN {DefaultDelay} ELSE {MinDelay, MaxDelay}
  /\ urls = <<>>
  /\ i = 0
  /\ page = NoPage
  /\ elements = NoneVal
  /\ heap = <<>>
  /\ results = <<>>
  /\ self_results = <<>>
  /\ excel_data = <<>>
  /\ files = {}
  /\ ui = "none"
  /\ events = <<>>
  /\ appended = <<>>
  /\ hl = <<>>
  /\ cell = <<>>

\* --------------------------------------------------------- the URL source
\* what search(query, num_results=n, lang="en") can end in
SearchOutcomes(n) ==
  {[kind |-> "raise", urls |-> <<>>]}
    \cup {[kind |-> "urls", urls |-> us] : us \in SeqsUpTo(Urls, n)}

\* get_serp_urls: the provider's error becomes the empty list
SerpUrls(outcome) == IF outcome.kind = "raise" THEN <<>> ELSE outcome.urls

GetSerpUrls ==
  /\ pc = "start"
  /\ \E outcome \in SearchOutcomes(num_results) : urls' = SerpUrls(outcome)
  /\ pc' = IF variant = "app" THEN "check_urls" ELSE "loop"
  /\ UNCHANGED <<variant, num_results, delay, i, page, elements, heap, results,
                 self_results, excel_data, files, ui, events, appended,
                 flattenVars>>

\* the guards below with a fault: the emptiness test is dropped
NeverEmpty(list) == TRUE

\* app.py: if not urls
AppHasUrls(list) == list /= <<>>

\* app.py: if not results
AppHasResults(list) == list /= <<>>

\* save_results: if not self.results
SaveHasResults(list) == list /= <<>>

AppCheckUrls ==
  /\ pc = "check_urls"
  /\ IF AppHasUrls(urls)
     THEN pc' = "loop" /\ ui' = ui
     ELSE pc' = "done" /\ ui' = "no_urls"
  /\ UNCHANGED <<variant, num_results, delay, urls, i, page, elements, heap,
                 results, self_results, excel_data, files, events, appended,
                 flattenVars>>

\* ---------------------------------------------------------------- the loop
\* the loop takes the next URL and reports the progress
LoopNext ==
  /\ pc = "loop"
  /\ i < Len(urls)
  /\ i' = i + 1
  /\ events' = Append(events, Event("progress", i + 1, urls[i + 1], Len(urls), ""))
  /\ pc' = "sleep"
  /\ UNCHANGED <<variant, num_results, delay, urls, page, elements, heap,
                 results, self_results, excel_data, files, ui, appended,
                 flattenVars>>

\* Sleep with a fault: the pause is left out
SleepSkipped ==
  /\ pc = "sleep"
  /\ pc' = "fetch"
  /\ UNCHANGED <<variant, num_results, delay, urls, i, page, elements, heap,
                 results, self_results, excel_data, files, ui, events, appended,
                 flattenVars>>

\* extract_page_elements: time.sleep(self.delay)
Sleep ==
  /\ pc = "sleep"
  /\ events' = Append(events, Event("pause", i, urls[i], delay, ""))
  /\ pc' = "fetch"
  /\ UNCHANGED <<variant, num_results, delay, urls, i, page, elements, heap,
                 results, self_results, excel_data, files, ui, appended,
                 flattenVars>>

FetchResult(outcome) ==
  IF outcome.kind /= "response" THEN outcome.kind
  ELSE IF IsSuccess(outcome) THEN "ok" ELSE "http_error"

\* the top level's handling of an exception that reaches it: app.py's
\* except Exception shows a generic error; main has no handler
Uncaught(v) == IF v = "app" THEN "generic_error" ELSE "traceback"

\* Fetch with a fault: the exception leaves extract_page_elements
FetchNoExcept ==
  /\ pc = "fetch"
  /\ \E outcome \in FetchOutcomes :
       /\ events' = Append(events, Event("fetch", i, urls[i], outcome.status,
                                         FetchResult(outcome)))
       /\ page' = outcome
       /\ IF outcome.kind = "response"
          THEN pc' = "parse" /\ ui' = ui
          ELSE pc' = "done" /\ ui' = Uncaught(variant)
  /\ UNCHANGED <<variant, num_results, delay, urls, i, elements, heap, results,
                 self_results, excel_data, files, appended, flattenVars>>

\* extract_page_elements: requests.get; an exception is caught and None returned
Fetch ==
  /\ pc = "fetch"
  /\ \E outcome \in FetchOutcomes :
       /\ events' = Append(events, Event("fetch", i, urls[i], outcome.status,
                                         FetchResult(outcome)))
       /\ page' = outcome
       /\ IF outcome.kind = "response"
          THEN pc' = "parse" /\ elements' = elements
          ELSE pc' = "returned" /\ elements' = NoneVal
  /\ UNCHANGED <<variant, num_results, delay, urls, i, heap, results,
                 self_results, excel_data, files, ui, appended, flattenVars>>

\* extract_page_elements: the parse and the elements dict; a markup the
\* parser rejects raises, which is caught and None returned
ExtractElements ==
  /\ pc = "parse"
  /\ elements' = IF page.markup = "ok" THEN Elements(urls[i], Soup(page))
                 ELSE NoneVal
  /\ events' = Append(events, Event("extract", i, urls[i], 0, page.markup))
  /\ pc' = "returned"
  /\ UNCHANGED <<variant, num_results, delay, urls, i, page, heap, results,
                 self_results, excel_data, files, ui, appended, flattenVars>>

\* the rank with a fault: dense over the successes
RankDense(idx, res) == Len(res) + 1

\* analyze_serp: page_elements['rank'] = i
AnalyzeSerpRank(idx, res) == idx

\* app.py: page_elements['rank'] = i
AppRank(idx, res) == idx

RankOf(v, idx, res) ==
  IF v = "cli" THEN AnalyzeSerpRank(idx, res) ELSE AppRank(idx, res)

\* the truth value of what extract_page_elements returned
Truthy(value) == value /= NoneVal

AppendOrSkip ==
  /\ pc = "returned"
  /\ IF Truthy(elements)
     THEN LET record == elements @@ [rank |-> RankOf(variant, i, results)]
          IN  /\ heap' = Append(heap, record)
              /\ results' = Append(results, Len(heap) + 1)
              /\ appended' = Append(appended, record)
              /\ events' = Append(events, Event("appended", i, urls[i],
                                                record.rank, ""))
     ELSE /\ events' = Append(events, Event("skipped", i, urls[i], 0, ""))
          /\ UNCHANGED <<heap, results, appended>>
  /\ pc' = "loop"
  /\ UNCHANGED <<variant, num_results, delay, urls, i, page, elements,
                 self_results, excel_data, files, ui, flattenVars>>

\* the loop is over: analyze_serp sets self.results and returns to main,
\* which calls save_results; app.py goes on to its test of results
LoopEnd ==
  /\ pc = "loop"
  /\ i = Len(urls)
  /\ IF variant = "cli"
     THEN self_results' = results /\ pc' = "save"
     ELSE self_results' = self_results /\ pc' = "check_results"
  /\ UNCHANGED <<variant, num_results, delay, urls, i, page, elements, heap,
                 results, excel_data, files, ui, events, appended, flattenVars>>

\* ------------------------------------------------------------- the export
SaveResultsGuard ==
  /\ pc = "save"
  /\ IF SaveHasResults(self_results)
     THEN pc' = "json" /\ ui' = ui
     ELSE pc' = "done" /\ ui' = "no_results_to_save"
  /\ UNCHANGED <<variant, num_results, delay, urls, i, page, elements, heap,
                 results, self_results, excel_data, files, events, appended,
                 flattenVars>>

AppCheckResults ==
  /\ pc = "check_results"
  /\ IF AppHasResults(results)
     THEN pc' = "json" /\ ui' = ui
     ELSE pc' = "done" /\ ui' = "no_results"
  /\ UNCHANGED <<variant, num_results, delay, urls, i, page, elements, heap,
                 results, self_results, excel_data, files, events, appended,
                 flattenVars>>

\* what the run exports: self.results in save_results, results in app.py
Exported == IF variant = "cli" THEN self_results ELSE results

\* os.makedirs, open and json.dump: the file is written, or one of them raises
SaveJson ==
  /\ pc = "json"
  /\ \E io \in {"ok", "raise"} :
       IF io = "ok"
       THEN files' = files \cup {"json"} /\ pc' = "excel" /\ ui' = ui
       ELSE files' = files /\ pc' = "done" /\ ui' = Uncaught(variant)
  /\ UNCHANGED <<variant, num_results, delay, urls, i, page, elements, heap,
                 results, self_results, excel_data, events, appended,
                 flattenVars>>

\* ResultCopy with a fault: row = result, the record itself
ResultAlias(h, ref) == [heap |-> h, ref |-> ref]

\* row = result.copy(): a new dict with the same values
ResultCopy(h, ref) == [heap |-> Append(h, h[ref]), ref |-> Len(h) + 1]

\* for key in ['h1', ..., 'h6']: row[key] = '\n'.join(row[key])
FlattenRow(row) ==
  [row EXCEPT !.h1 = PyStr(JoinNL(@.v)), !.h2 = PyStr(JoinNL(@.v)),
              !.h3 = PyStr(JoinNL(@.v)), !.h4 = PyStr(JoinNL(@.v)),
              !.h5 = PyStr(JoinNL(@.v)), !.h6 = PyStr(JoinNL(@.v))]

\* the flattening loop over the exported records: the heap and the rows after it
RECURSIVE FlattenRows(_, _, _)
FlattenRows(h, rows, refs) ==
  IF refs = <<>> THEN [heap |-> h, rows |-> rows]
  ELSE LET c == ResultCopy(h, Head(refs))
           h2 == [c.heap EXCEPT ![c.ref] = FlattenRow(@)]
       IN  FlattenRows(h2, Append(rows, c.ref), Tail(refs))

\* the rows are built, then DataFrame(...).to_excel writes the file or raises
SaveExcel ==
  /\ pc = "excel"
  /\ LET f == FlattenRows(heap, <<>>, Exported)
     IN  heap' = f.heap /\ excel_data' = f.rows
  /\ \E io \in {"ok", "raise"} :
       IF io = "ok"
       THEN /\ files' = files \cup {"xlsx"}
            /\ pc' = IF variant = "app" THEN "display" ELSE "done"
            /\ ui' = IF variant = "app" THEN "success" ELSE "saved"
       ELSE files' = files /\ pc' = "done" /\ ui' = Uncaught(variant)
  /\ UNCHANGED <<variant, num_results, delay, urls, i, page, elements, results,
                 self_results, events, appended, flattenVars>>

\* app.py: the download buttons, the summary and the details read the records
Display ==
  /\ pc = "display"
  /\ pc' = "done"
  /\ UNCHANGED <<variant, num_results, delay, urls, i, page, elements, heap,
                 results, self_results, excel_data, files, ui, events, appended,
                 flattenVars>>

Next ==
  \/ GetSerpUrls
  \/ AppCheckUrls
  \/ LoopNext
  \/ Sleep
  \/ Fetch
  \/ ExtractElements
  \/ AppendOrSkip
  \/ LoopEnd
  \/ SaveResultsGuard
  \/ AppCheckResults
  \/ SaveJson
  \/ SaveExcel
  \/ Display

Spec == Init /\ [][Next]_vars

\* ------------------------------------------- extraction as a pure function
InitExtract ==
  /\ variant = "cli"
  /\ pc = "parse"
  /\ num_results = 1
  /\ delay = DefaultDelay
  /\ urls \in {<<u>> : u \in Urls}
  /\ i = 1
  /\ page \in {Response(200, d, "ok") : d \in AllDocs}
  /\ elements = NoneVal
  /\ heap = <<>>
  /\ results = <<>>
  /\ self_results = <<>>
  /\ excel_data = <<>>
  /\ files = {}
  /\ ui = "none"
  /\ events = <<>>
  /\ appended = <<>>
  /\ hl = <<>>
  /\ cell = <<>>

NextExtract == ExtractElements

SpecExtract == InitExtract /\ [][NextExtract]_vars

\* --------------------------------------------- the flattening round trip
InitFlatten ==
  /\ variant = "cli"
  /\ pc = "join"
  /\ num_results = 1
  /\ delay = DefaultDelay
  /\ urls = <<>>
  /\ i = 0
  /\ page = NoPage
  /\ elements = NoneVal
  /\ heap = <<>>
  /\ results = <<>>
  /\ self_results = <<>>
  /\ excel_data = <<>>
  /\ files = {}
  /\ ui = "none"
  /\ events = <<>>
  /\ appended = <<>>
  /\ hl \in HeadingLists
  /\ cell = <<>>

\* row[key] = '\n'.join(row[key]) of one heading list
FlattenJoin ==
  /\ pc = "join"
  /\ cell' = JoinNL(hl)
  /\ pc' = "joined"
  /\ UNCHANGED <<runVars, page, elements, hl>>

NextFlatten == FlattenJoin

SpecFlatten == InitFlatten /\ [][NextFlatten]_vars

\* ------------------------------------------------------------- properties
EventsOf(types) == SelectSeq(events, LAMBDA e : e.type \in types)
Record(j) == heap[results[j]]
HeadingKeys == <<"h1", "h2", "h3", "h4", "h5", "h6">>

C2_RecordOnlyOnSuccess ==
  \A k \in 1..Len(events) :
    (events[k].type = "fetch" /\ events[k].res /= "ok") =>
      /\ \A m \in 1..Len(events) :
           events[m].type = "appended" => events[m].idx /= events[k].idx
      /\ \A j \in 1..Len(results) : Record(j).rank /= events[k].idx

\* every URL of the source's reply has been taken once, in source order, and
\* has been appended or skipped
AllProcessed ==
  LET taken == EventsOf({"progress"})
      ended == EventsOf({"appended", "skipped"})
  IN  /\ Len(taken) = Len(urls)
      /\ \A k \in 1..Len(taken) : taken[k].idx = k /\ taken[k].url = urls[k]
      /\ Len(ended) = Len(urls)
      /\ \A k \in 1..Len(ended) : ended[k].idx = k
      /\ Len(urls) <= num_results

\* the number of steps the run can still take, at most
StepsLeft ==
  CASE pc = "start" -> 5 * num_results + 8
    [] pc = "check_urls" -> 5 * Len(urls) + 7
    [] pc = "loop" -> 5 * (Len(urls) - i) + 6
    [] pc = "sleep" -> 5 * (Len(urls) - i) + 10
    [] pc = "fetch" -> 5 * (Len(urls) - i) + 9
    [] pc = "parse" -> 5 * (Len(urls) - i) + 8
    [] pc = "returned" -> 5 * (Len(urls) - i) + 7
    [] pc \in {"save", "check_results"} -> 5
    [] pc = "json" -> 4
    [] pc = "excel" -> 3
    [] pc = "display" -> 2
    [] OTHER -> 0

\* C3: the run ends (it can always take a step until it is done, and every
\* step lowers a count of steps left that never falls below zero), and once
\* the loop is over every URL of the source's reply has been taken exactly
\* once, in source order, and appended or skipped, whatever its outcome: no
\* failure of a URL ends the loop early; the reply is no longer than the
\* requested count, and may be shorter.
C3_LoopTerminates ==
  /\ [](pc /= "done" => ENABLED Next)
  /\ [](StepsLeft >= 0)
  /\ [][StepsLeft' < StepsLeft]_vars
  /\ [](pc \in {"save", "check_results", "json", "excel", "display"}
          => AllProcessed)
  /\ [](pc = "done" => AllProcessed)

C3_Witness ==
  /\ pc = "done"
  /\ Len(urls) = 2
  /\ num_results = 3
  /\ \E k \in 1..Len(events) : events[k].type = "skipped" /\ events[k].idx = 1
  /\ \E k \in 1..Len(events) : events[k].type = "appended" /\ events[k].idx = 2

\* C4: a run with zero records writes no file, and it ends in the no-URLs or
\* no-results message.
C4_EmptyRunNoExport ==
  /\ results = <<>> => files = {}
  /\ (pc = "done" /\ results = <<>>) =>
       ui \in {"no_urls", "no_results", "no_results_to_save"}

C4_Witness ==
  /\ pc = "done"
  /\ results = <<>>
  /\ Len(urls) = 2
  /\ Len(EventsOf({"skipped"})) = 2
  /\ files = {}

\* the trimmed text of each element, the empty ones left out
RECURSIVE TrimmedTexts(_)
TrimmedTexts(els) ==
  IF els = <<>> THEN <<>>
  ELSE LET t == Strip(Concat(Head(els).strings))
       IN  IF t = <<>> THEN TrimmedTexts(Tail(els))
           ELSE <<t>> \o TrimmedTexts(Tail(els))

WhitespaceOnly(s) == \A k \in 1..Len(s) : s[k] \in Whitespace

\* C5: every heading list of a record holds no empty and no whitespace-only
\* string, and is the list of the trimmed texts of the elements of its level
\* in document order, those empty after trimming left out.
C5_HeadingsAreTrimmedTexts ==
  (pc = "returned" /\ elements /= NoneVal) =>
    \A h \in Levels :
      /\ \A k \in 1..Len(elements[h].v) : ~WhitespaceOnly(elements[h].v[k])
      /\ elements[h].v = TrimmedTexts(FindAll(Soup(page), h))

\* t is s without its leading and trailing whitespace
IsTrimOf(t, s) ==
  /\ t /= <<>> => (t[1] \notin Whitespace /\ t[Len(t)] \notin Whitespace)
  /\ \E a \in 0..Len(s) :
       /\ a + Len(t) <= Len(s)
       /\ SubSeq(s, a + 1, a + Len(t)) = t
       /\ \A k \in 1..a : s[k] \in Whitespace
       /\ \A k \in (a + Len(t) + 1)..Len(s) : s[k] \in Whitespace

ContentOrEmpty(el) == IF el.content = <<>> THEN <<>> ELSE el.content[1]

\* C6: the meta description of a parsed page is the trimmed content of the
\* first meta element with name=description; without such an element, that
\* of the first meta element with property=og:description; without either,
\* the empty string.  A missing attribute counts as an empty one, nothing
\* raises (a record is returned), and the title is empty without a title
\* element.
C6_MetaDescription ==
  (pc = "returned" /\ page.markup = "ok") =>
    LET soup == Soup(page)
        named == {k \in 1..Len(soup) :
                    soup[k].tag = "meta" /\ soup[k].name = <<"description">>}
        og == {k \in 1..Len(soup) :
                 soup[k].tag = "meta" /\ soup[k].property = <<"og:description">>}
        first(S) == CHOOSE k \in S : \A m \in S : k <= m
    IN  /\ elements /= NoneVal
        /\ IF named /= {}
           THEN IsTrimOf(elements.meta_description,
                         ContentOrEmpty(soup[first(named)]))
           ELSE IF og /= {}
                THEN IsTrimOf(elements.meta_description,
                              ContentOrEmpty(soup[first(og)]))
                ELSE elements.meta_description = <<>>
        /\ (\A k \in 1..Len(soup) : soup[k].tag /= "title")
             => elements.title = <<>>

C6_Witness ==
  /\ pc = "returned"
  /\ \A k \in 1..Len(Soup(page)) :
       /\ Soup(page)[k].tag /= "title"
       /\ Soup(page)[k].name /= <<"description">>
  /\ \E k \in 1..Len(Soup(page)) :
       Soup(page)[k].property = <<"og:description">>
  /\ elements.title = <<>>
  /\ elements.meta_description = <<"b">>

RECURSIVE SplitOn(_, _)
SplitOn(s, sep) ==
  IF \A k \in 1..Len(s) : s[k] /= sep THEN <<s>>
  ELSE LET k == CHOOSE n \in 1..Len(s) :
                  s[n] = sep /\ \A m \in 1..(n - 1) : s[m] /= sep
       IN  <<SubSeq(s, 1, k - 1)>> \o SplitOn(SubSeq(s, k + 1, Len(s)), sep)

\* cell.split('\n'), as a reader of the exported cell splits it
SplitNL(s) == SplitOn(s, NL)

NoNewline(list) ==
  \A k \in 1..Len(list) : \A n \in 1..Len(list[k]) : list[k][n] /= NL

\* C7 as claimed: for every heading list with no newline in its entries, the
\* empty list included, splitting the joined cell on newlines gives the list
\* back.
C7_RoundTripAnyList ==
  (pc = "joined" /\ NoNewline(hl)) => SplitNL(cell) = hl

\* C7 as amended: for every heading list of at least one entry with no
\* newline in its entries, splitting the joined cell on newlines gives the
\* list back; the empty list is joined to the empty string, which splits to
\* the list of one empty string.
C7_RoundTripNonEmptyList ==
  (pc = "joined" /\ NoNewline(hl)) =>
    IF hl = <<>> THEN cell = <<>> /\ SplitNL(cell) = << <<>> >>
    ELSE SplitNL(cell) = hl

C7_Witness ==
  /\ pc = "joined"
  /\ Len(hl) = 2
  /\ NoNewline(hl)
  /\ \E k \in 1..Len(cell) : cell[k] = NL
  /\ SplitNL(cell) = hl

\* C8: an exception that reaches the top level of a run is turned into the
\* generic error message in both variants: no run ends in an uncaught
\* exception's traceback.
C8_ExceptionsCaught == ui /= "traceback"

\* C9: the events of a run come in blocks, one per URL in source order: one
\* progress report (index, total, URL), then one pause of the configured
\* delay, then one fetch of that URL, then the extraction if the fetch
\* returned, then the append or the skip; the next URL's progress report
\* follows the append or skip of the one before; once the loop is over every
\* URL has had its report, its pause and its fetch.
C9_EventsSequential ==
  /\ \A k \in 1..Len(events) :
       LET e == events[k]
           before(types) ==
             k > 1 /\ events[k - 1].type \in types /\ events[k - 1].idx = e.idx
       IN  /\ e.idx \in 1..Len(urls)
           /\ e.url = urls[e.idx]
           /\ e.type = "progress" =>
                /\ e.n = Len(urls)
                /\ IF k = 1 THEN e.idx = 1
                   ELSE /\ events[k - 1].type \in {"appended", "skipped"}
                        /\ e.idx = events[k - 1].idx + 1
           /\ e.type = "pause" => (before({"progress"}) /\ e.n = delay)
           /\ e.type = "fetch" => before({"pause"})
           /\ e.type = "extract" =>
                (before({"fetch"}) /\ events[k - 1].res \in {"ok", "http_error"})
           /\ e.type = "appended" => before({"extract"})
           /\ e.type = "skipped" => before({"fetch", "extract"})
  /\ (pc \notin {"start", "check_urls", "loop", "sleep", "fetch", "parse",
                 "returned"}) =>
       /\ Len(EventsOf({"progress"})) = Len(urls)
       /\ Len(EventsOf({"pause"})) = Len(urls)
       /\ Len(EventsOf({"fetch"})) = Len(urls)

C9_Witness ==
  /\ pc = "done"
  /\ Len(events) >= 9
  /\ events[4].type = "skipped"
  /\ events[5].type = "progress"
  /\ events[6].type = "pause"
  /\ events[7].type = "fetch"
  /\ events[9].type = "appended"

\* C10: every record of the run is, field for field, what it was when it was
\* appended (its heading lists still lists), and the collection holds the
\* same records in the same order, during and after the export; the export's
\* rows are other objects, with the heading lists flattened.
C10_RecordsUnchanged ==
  /\ Len(results) = Len(appended)
  /\ \A j \in 1..Len(results) :
       /\ Record(j) = appended[j]
       /\ \A n \in 1..6 : Record(j)[HeadingKeys[n]].py = "list"
  /\ \A j \in 1..Len(excel_data) :
       /\ \A m \in 1..Len(results) : excel_data[j] /= results[m]
       /\ \A n \in 1..6 : heap[excel_data[j]][HeadingKeys[n]].py = "str"

C10_Witness ==
  /\ pc = "done"
  /\ files = {"json", "xlsx"}
  /\ Len(results) = 2
  /\ Len(excel_data) = 2
  /\ Record(1).h1 = PyList(<< <<"a", "b">> >>)
  /\ heap[excel_data[1]].h1 = PyStr(<<"a", "b">>)
====
